---- MODULE Spec2Model ----
(***************************************************************************)
(* Model of the tenant-provisioning handler, src/functions/create.py       *)
(* (lambda_handler).  One invocation is a sequence of steps, one per       *)
(* external call; the registry (Bedrock knowledge bases), the bucket (S3)  *)
(* and the search collection (OpenSearch indices) are shared between       *)
(* concurrent invocations.                                                 *)
(***************************************************************************)
EXTENDS Integers, Sequences, FiniteSets, TLC

\* ------------------------------------------------------------- bounds
\* Longest raw client_id enumerated by the validation specification.
MaxLen == 3
\* Invocations started in one behaviour of Spec (caps the id counter).
MaxInvocations == 2
\* Concurrent execution contexts (Lambda invocations alive at once).
NumInv == 2

Invocations == 1..NumInv

\* ------------------------------------------------------------- characters
\* Representative characters: ASCII lower/upper letters, a digit, hyphen,
\* underscore, whitespace, ASCII punctuation, and a non-ASCII letter.
Chars == {"a", "b", "A", "1", "-", "_", " ", "!", "é"}

\* str.lower() on one character.
LowerChar(c) == IF c = "A" THEN "a" ELSE c

\* Characters str.strip() removes.
IsSpace(c) == c = " "

\* str.isalnum() on one character: Unicode letters and digits.
IsAlnumChar(c) == c \in {"a", "b", "A", "1", "é"}

\* The character set [a-z0-9_-].
InCharset(c) == c \in {"a", "b", "1", "-", "_"}

\* ------------------------------------------------------------- str methods
lower(s) == [k \in 1..Len(s) |-> LowerChar(s[k])]

RECURSIVE lstrip(_)
lstrip(s) == IF s # <<>> /\ IsSpace(Head(s)) THEN lstrip(Tail(s)) ELSE s

RECURSIVE rstrip(_)
rstrip(s) ==
    IF s # <<>> /\ IsSpace(s[Len(s)]) THEN rstrip(SubSeq(s, 1, Len(s) - 1)) ELSE s

strip(s) == rstrip(lstrip(s))

\* s.replace(c, '')
remove(s, c) == SelectSeq(s, LAMBDA x : x # c)

\* str.isalnum(): non-empty and every character alphanumeric.
isalnum(s) == Len(s) > 0 /\ \A k \in 1..Len(s) : IsAlnumChar(s[k])

\* body['client_id'].lower().strip()
Normalize(raw) == strip(lower(raw))

\* f"kb-{client_id}"
KbName(cid) == <<"k", "b", "-">> \o cid

\* ------------------------------------------------------------- requests
RECURSIVE StringsUpTo(_)
StringsUpTo(n) ==
    IF n = 0 THEN {<<>>}
    ELSE LET shorter == StringsUpTo(n - 1)
         IN  shorter \cup {Append(s, c) : s \in {t \in shorter : Len(t) = n - 1}, c \in Chars}

\* event['body'] by shape: the key is absent; it is None; it is text that is
\* not JSON; it is JSON but no object; an object without client_id; an object
\* whose client_id is no string; an object with a string client_id.
BodyKinds == {"absent", "null", "malformed", "nonobject", "nokey", "nonstring", "string"}

Body(kind, raw) == [kind |-> kind, client_id |-> raw]

OtherBodies == {Body(k, <<>>) : k \in BodyKinds \ {"string"}}

\* Every request with a client_id of at most MaxLen characters.
AllBodies == OtherBodies \cup {Body("string", s) : s \in StringsUpTo(MaxLen)}

\* The requests of the concurrent specification: one well-formed tenant
\* (written with a capital and padding), a client_id that is too short and one
\* with a character that is not allowed.
RawIds == { <<"A", "b", " ">>, <<"a">>, <<"a", "!">> }

\* Another tenant, provisioned before the behaviour starts: the registry, the
\* bucket and the collection hold its knowledge base, marker and index.
OtherTenant == <<"b", "_", "1">>

Bodies == OtherBodies \cup {Body("string", s) : s \in RawIds}

\* ------------------------------------------------------------- environment
EnvNames ==
    << "OPENSEARCH_COLLECTION_ARN", "OPENSEARCH_COLLECTION_ENDPOINT",
       "S3_BUCKET_NAME", "S3_BUCKET_ARN", "BEDROCK_KB_ROLE_ARN", "REGION" >>

EnvSet == {EnvNames[k] : k \in 1..Len(EnvNames)}

\* The first os.environ[...] lookup that raises KeyError, "" when none does.
MissingEnv(e) ==
    IF \A k \in 1..Len(EnvNames) : EnvNames[k] \in e THEN ""
    ELSE EnvNames[CHOOSE k \in 1..Len(EnvNames) :
                      /\ EnvNames[k] \notin e
                      /\ \A j \in 1..(k - 1) : EnvNames[j] \in e]

\* ------------------------------------------------------------- responses
Response(status, err, detail) ==
    [statusCode |-> status, success |-> FALSE, error |-> err,
     detail |-> detail, kb_id |-> 0]

NoResponse == Response(0, "", "")

TooShort == Response(400, "client_id must be at least 2 characters long", "")

BadCharset ==
    Response(400, "client_id can only contain letters, numbers, hyphens and underscores", "")

\* Conflict answered as a success status: the duplicate treated as "already done".
ConflictAsOk(existing) ==
    [statusCode |-> 200, success |-> FALSE, error |-> "Knowledge Base already exists",
     detail |-> "", kb_id |-> existing]

Conflict(existing) ==
    [statusCode |-> 409, success |-> FALSE, error |-> "Knowledge Base already exists",
     detail |-> "", kb_id |-> existing]

Success(kb) ==
    [statusCode |-> 200, success |-> TRUE, error |-> "", detail |-> "", kb_id |-> kb]

InvalidJson == Response(400, "Invalid JSON in request body", "")

MissingField(name) == Response(400, "Missing required field", name)

InternalError(msg) == Response(500, "Internal server error", msg)

\* The handler's outer except clauses, by exception class.
OuterExcept(exc, detail) ==
    CASE exc = "JSONDecodeError" -> InvalidJson
      [] exc = "KeyError"        -> MissingField(detail)
      [] OTHER                   -> InternalError(detail)

\* ------------------------------------------------------------- validation
\* IsTooShort with the bound off by one: a single character passes.
IsTooShortOffByOne(cid) == cid = <<>> \/ Len(cid) < 1

\* Line 20: "not client_id or len(client_id) < 2".
IsTooShort(cid) == cid = <<>> \/ Len(cid) < 2

\* Line 29: client_id.replace('-', '').replace('_', '').isalnum().
CharsetOk(cid) == isalnum(remove(remove(cid, "-"), "_"))

\* Lines 16-44: what the handler returns before it builds any client, or
\* NoResponse when it goes on to the provisioning steps.
Prelude(body, e) ==
    LET cid == Normalize(body.client_id)
    IN  IF body.kind = "absent" THEN OuterExcept("KeyError", "body")
        ELSE IF body.kind = "null" THEN OuterExcept("TypeError", "TypeError")
        ELSE IF body.kind = "malformed" THEN OuterExcept("JSONDecodeError", "")
        ELSE IF body.kind = "nonobject" THEN OuterExcept("TypeError", "TypeError")
        ELSE IF body.kind = "nokey" THEN OuterExcept("KeyError", "client_id")
        ELSE IF body.kind = "nonstring" THEN OuterExcept("AttributeError", "AttributeError")
        ELSE IF IsTooShort(cid) THEN TooShort
        ELSE IF ~CharsetOk(cid) THEN BadCharset
        ELSE IF MissingEnv(e) # "" THEN OuterExcept("KeyError", MissingEnv(e))
        ELSE NoResponse

\* ------------------------------------------------------------- failures
\* str(e) of an exception raised by an external call.
Msgs == {"m1", "m2"}

\* An exception of an external call: botocore's ClientError, or any other
\* Exception (a connection error, a parameter validation error, a timeout).
Failures == [kind : {"ClientError", "Other"}, msg : Msgs]

\* The handlers that enclose a step whose inner clause is "except ClientError":
\* the inner clause answers with the step's own error, every other exception
\* reaches the outer "except Exception".
StepError(exc, err) ==
    IF exc.kind = "ClientError" THEN Response(500, err, exc.msg)
    ELSE OuterExcept(exc.kind, exc.msg)

\* ------------------------------------------------------------- state
VARIABLES
    env,        \* the names os.environ holds
    registry,   \* Bedrock knowledge bases, in listing order: [name, id, ds]
    bucket,     \* tenants whose <client_id>/README.md object exists
    indices,    \* tenants whose <client_id>_index exists
    nextId,     \* the next knowledgeBaseId the registry hands out
    started,    \* invocations started so far
    pc,         \* each invocation's position in the handler
    req,        \* each invocation's event['body']
    client_id,  \* each invocation's normalized client_id
    kb_id,      \* each invocation's kb_id (0: not assigned)
    ds_error,   \* the message of the create_data_source ClientError being handled
    calls,      \* the external calls each invocation has issued, in order
    resp        \* each invocation's response (NoResponse: not returned yet)

vars ==
    << env, registry, bucket, indices, nextId, started,
       pc, req, client_id, kb_id, ds_error, calls, resp >>

world == << registry, bucket, indices, nextId >>

\* One external call as the log records it. msg is str(e) of a failed call
\* where the handler keeps e across a further call (create_data_source, whose
\* e is in scope during the cleanup); elsewhere the message goes to the
\* response or to print alone, and the log holds "".
Call(op, ok, msg) == [op |-> op, ok |-> ok, msg |-> msg]

NoBody == Body("absent", <<>>)

Init ==
    /\ env \in {EnvSet} \cup {EnvSet \ {n} : n \in EnvSet}
    /\ registry = << [name |-> KbName(OtherTenant), id |-> 1, ds |-> TRUE] >>
    /\ bucket = {OtherTenant}
    /\ indices = {OtherTenant}
    /\ nextId = Len(registry) + 1
    /\ started = 0
    /\ pc = [i \in Invocations |-> "idle"]
    /\ req = [i \in Invocations |-> NoBody]
    /\ client_id = [i \in Invocations |-> <<>>]
    /\ kb_id = [i \in Invocations |-> 0]
    /\ ds_error = [i \in Invocations |-> ""]
    /\ calls = [i \in Invocations |-> <<>>]
    /\ resp = [i \in Invocations |-> NoResponse]

\* The handler returns r.
Finish(i, r) ==
    /\ pc' = [pc EXCEPT ![i] = "done"]
    /\ resp' = [resp EXCEPT ![i] = r]

\* The handler goes on to the step at label.
Goto(i, label) ==
    /\ pc' = [pc EXCEPT ![i] = label]
    /\ UNCHANGED resp

LogOk(i, op) == calls' = [calls EXCEPT ![i] = Append(@, Call(op, TRUE, ""))]

LogFail(i, op, msg) == calls' = [calls EXCEPT ![i] = Append(@, Call(op, FALSE, msg))]

\* ------------------------------------------------------------- the handler
\* Lines 16-70: parse, validate, read the configuration, build the clients.
Invoke(i, body) ==
    /\ pc[i] = "idle"
    /\ started < MaxInvocations
    /\ started' = started + 1
    /\ req' = [req EXCEPT ![i] = body]
    /\ client_id' = [client_id EXCEPT ![i] = Normalize(body.client_id)]
    /\ IF Prelude(body, env) = NoResponse
         THEN Goto(i, "list")
         ELSE Finish(i, Prelude(body, env))
    /\ UNCHANGED << env, world, kb_id, ds_error, calls >>

\* FindExisting comparing the name with the bare client_id, without "kb-".
FindExistingNoPrefix(existing_kbs, cid) ==
    LET hits == {k \in 1..Len(existing_kbs) : existing_kbs[k].name = cid}
    IN  IF hits = {} THEN 0
        ELSE existing_kbs[CHOOSE k \in hits : \A j \in hits : k <= j].id

\* FindExisting skipping knowledge bases that have no data source yet.
FindExistingWithDataSource(existing_kbs, cid) ==
    LET hits == {k \in 1..Len(existing_kbs) :
                   existing_kbs[k].name = KbName(cid) /\ existing_kbs[k].ds}
    IN  IF hits = {} THEN 0
        ELSE existing_kbs[CHOOSE k \in hits : \A j \in hits : k <= j].id

\* Lines 74-83: the knowledgeBaseId of the first summary named kb-<client_id>,
\* 0 when the listing holds none.
FindExisting(existing_kbs, cid) ==
    LET hits == {k \in 1..Len(existing_kbs) : existing_kbs[k].name = KbName(cid)}
    IN  IF hits = {} THEN 0
        ELSE existing_kbs[CHOOSE k \in hits : \A j \in hits : k <= j].id

\* Lines 72-85: the duplicate check.
ListKnowledgeBases(i) ==
    /\ pc[i] = "list"
    /\ \/ /\ LogOk(i, "list_knowledge_bases")
          /\ IF FindExisting(registry, client_id[i]) # 0
               THEN Finish(i, Conflict(FindExisting(registry, client_id[i])))
               ELSE Goto(i, "put")
       \/ \E exc \in Failures :
            /\ LogFail(i, "list_knowledge_bases", "")
            /\ IF exc.kind = "ClientError"
                 THEN Goto(i, "put")
                 ELSE Finish(i, OuterExcept(exc.kind, exc.msg))
    /\ UNCHANGED << env, world, started, req, client_id, kb_id, ds_error >>

\* PutObject whose failure is only logged: the handler goes on to the index.
PutObjectFailureIgnored(i) ==
    /\ pc[i] = "put"
    /\ \/ /\ LogOk(i, "put_object")
          /\ bucket' = bucket \cup {client_id[i]}
          /\ Goto(i, "exists")
       \/ \E exc \in Failures :
            /\ LogFail(i, "put_object", "")
            /\ UNCHANGED bucket
            /\ Goto(i, "exists")
    /\ UNCHANGED << env, registry, indices, nextId, started, req, client_id, kb_id, ds_error >>

\* Lines 87-105: the storage namespace marker.
PutObject(i) ==
    /\ pc[i] = "put"
    /\ \/ /\ LogOk(i, "put_object")
          /\ bucket' = bucket \cup {client_id[i]}
          /\ Goto(i, "exists")
       \/ \E exc \in Failures :
            /\ LogFail(i, "put_object", "")
            /\ UNCHANGED bucket
            /\ Finish(i, StepError(exc, "Failed to create S3 folder"))
    /\ UNCHANGED << env, registry, indices, nextId, started, req, client_id, kb_id, ds_error >>

\* IndicesExists whose result is not used: indices.create is always called.
IndicesExistsUnused(i) ==
    /\ pc[i] = "exists"
    /\ \/ /\ LogOk(i, "indices.exists")
          /\ Goto(i, "create_index")
       \/ \E exc \in Failures :
            /\ LogFail(i, "indices.exists", "")
            /\ Finish(i, Response(500, "Failed to create OpenSearch index", exc.msg))
    /\ UNCHANGED << env, world, started, req, client_id, kb_id, ds_error >>

\* Lines 109-143, 152-158: indices.exists.
IndicesExists(i) ==
    /\ pc[i] = "exists"
    /\ \/ /\ LogOk(i, "indices.exists")
          /\ IF client_id[i] \in indices
               THEN Goto(i, "create_kb")
               ELSE Goto(i, "create_index")
       \/ \E exc \in Failures :
            /\ LogFail(i, "indices.exists", "")
            /\ Finish(i, Response(500, "Failed to create OpenSearch index", exc.msg))
    /\ UNCHANGED << env, world, started, req, client_id, kb_id, ds_error >>

\* Lines 144-158: indices.create (the collection rejects an existing name).
IndicesCreate(i) ==
    /\ pc[i] = "create_index"
    /\ \/ /\ client_id[i] \notin indices
          /\ LogOk(i, "indices.create")
          /\ indices' = indices \cup {client_id[i]}
          /\ Goto(i, "create_kb")
       \/ \E exc \in Failures :
            /\ LogFail(i, "indices.create", "")
            /\ UNCHANGED indices
            /\ Finish(i, Response(500, "Failed to create OpenSearch index", exc.msg))
    /\ UNCHANGED << env, registry, bucket, nextId, started, req, client_id, kb_id, ds_error >>

\* CreateKnowledgeBase behind a per-tenant lock: it waits while another
\* invocation for the same client_id is between its duplicate check and its end.
CreateKnowledgeBaseLocked(i) ==
    /\ pc[i] = "create_kb"
    /\ \A j \in Invocations \ {i} :
          client_id[j] = client_id[i] => pc[j] \in {"idle", "list", "done"}
    /\ \/ /\ LogOk(i, "create_knowledge_base")
          /\ registry' = Append(registry,
                [name |-> KbName(client_id[i]), id |-> nextId, ds |-> FALSE])
          /\ nextId' = nextId + 1
          /\ kb_id' = [kb_id EXCEPT ![i] = nextId]
          /\ Goto(i, "create_ds")
       \/ \E exc \in Failures :
            /\ LogFail(i, "create_knowledge_base", "")
            /\ UNCHANGED << registry, nextId, kb_id >>
            /\ Finish(i, StepError(exc, "Failed to create Knowledge Base"))
    /\ UNCHANGED << env, bucket, indices, started, req, client_id, ds_error >>

\* Lines 160-196: create_knowledge_base.
CreateKnowledgeBase(i) ==
    /\ pc[i] = "create_kb"
    /\ \/ /\ LogOk(i, "create_knowledge_base")
          /\ registry' = Append(registry,
                [name |-> KbName(client_id[i]), id |-> nextId, ds |-> FALSE])
          /\ nextId' = nextId + 1
          /\ kb_id' = [kb_id EXCEPT ![i] = nextId]
          /\ Goto(i, "create_ds")
       \/ \E exc \in Failures :
            /\ LogFail(i, "create_knowledge_base", "")
            /\ UNCHANGED << registry, nextId, kb_id >>
            /\ Finish(i, StepError(exc, "Failed to create Knowledge Base"))
    /\ UNCHANGED << env, bucket, indices, started, req, client_id, ds_error >>

\* Lines 198-217, 231-260: create_data_source; a ClientError starts the cleanup.
CreateDataSource(i) ==
    /\ pc[i] = "create_ds"
    /\ \/ /\ LogOk(i, "create_data_source")
          /\ registry' = [k \in 1..Len(registry) |->
                IF registry[k].id = kb_id[i]
                  THEN [registry[k] EXCEPT !.ds = TRUE] ELSE registry[k]]
          /\ Finish(i, Success(kb_id[i]))
          /\ UNCHANGED ds_error
       \/ \E exc \in Failures :
            /\ LogFail(i, "create_data_source", exc.msg)
            /\ UNCHANGED registry
            /\ IF exc.kind = "ClientError"
                 THEN /\ ds_error' = [ds_error EXCEPT ![i] = exc.msg]
                      /\ Goto(i, "cleanup")
                 ELSE /\ UNCHANGED ds_error
                      /\ Finish(i, OuterExcept(exc.kind, exc.msg))
    /\ UNCHANGED << env, bucket, indices, nextId, started, req, client_id, kb_id >>

\* DataSourceError reporting a failed cleanup instead of the data-source error.
DataSourceErrorOrCleanup(msg, cleaned) ==
    IF cleaned THEN Response(500, "Failed to create Data Source", msg)
    ELSE Response(500, "Failed to cleanup Knowledge Base", msg)

\* Lines 224-228: the response after the cleanup, whatever the cleanup did.
DataSourceError(msg, cleaned) == Response(500, "Failed to create Data Source", msg)

\* DeleteKnowledgeBase removing by name: every knowledge base called
\* kb-<client_id> goes, not only the one this invocation created.
DeleteKnowledgeBaseByName(i) ==
    /\ pc[i] = "cleanup"
    /\ \/ /\ LogOk(i, "delete_knowledge_base")
          /\ registry' = SelectSeq(registry, LAMBDA kb : kb.name # KbName(client_id[i]))
          /\ Finish(i, DataSourceError(ds_error[i], TRUE))
       \/ \E exc \in Failures :
            /\ LogFail(i, "delete_knowledge_base", "")
            /\ UNCHANGED registry
            /\ Finish(i, DataSourceError(ds_error[i], FALSE))
    /\ UNCHANGED << env, bucket, indices, nextId, started, req, client_id, kb_id, ds_error >>

\* Lines 218-228: the compensating delete_knowledge_base, then the response.
DeleteKnowledgeBase(i) ==
    /\ pc[i] = "cleanup"
    /\ \/ /\ LogOk(i, "delete_knowledge_base")
          /\ registry' = SelectSeq(registry, LAMBDA kb : kb.id # kb_id[i])
          /\ Finish(i, DataSourceError(ds_error[i], TRUE))
       \/ \E exc \in Failures :
            /\ LogFail(i, "delete_knowledge_base", "")
            /\ UNCHANGED registry
            /\ Finish(i, DataSourceError(ds_error[i], FALSE))
    /\ UNCHANGED << env, bucket, indices, nextId, started, req, client_id, kb_id, ds_error >>

\* The invocation ends: its execution context holds nothing for the next one.
Return(i) ==
    /\ pc[i] = "done"
    /\ pc' = [pc EXCEPT ![i] = "idle"]
    /\ req' = [req EXCEPT ![i] = NoBody]
    /\ client_id' = [client_id EXCEPT ![i] = <<>>]
    /\ kb_id' = [kb_id EXCEPT ![i] = 0]
    /\ ds_error' = [ds_error EXCEPT ![i] = ""]
    /\ calls' = [calls EXCEPT ![i] = <<>>]
    /\ resp' = [resp EXCEPT ![i] = NoResponse]
    /\ UNCHANGED << env, world, started >>

\* One step of invocation i after its start.
Step(i) ==
    \/ ListKnowledgeBases(i)
    \/ PutObject(i)
    \/ IndicesExists(i)
    \/ IndicesCreate(i)
    \/ CreateKnowledgeBase(i)
    \/ CreateDataSource(i)
    \/ DeleteKnowledgeBase(i)

Next ==
    \/ \E i \in Invocations, body \in Bodies : Invoke(i, body)
    \/ \E i \in Invocations : Step(i)
    \/ \E i \in Invocations : Return(i)

\* Concurrent invocations over the representative requests.
Spec == Init /\ [][Next]_vars

\* One invocation, over every request of at most MaxLen characters.
NextValidate ==
    \/ pc[1] = "idle" /\ \E body \in AllBodies : Invoke(1, body)
    \/ Step(1)

SpecValidate == Init /\ [][NextValidate]_vars

\* ------------------------------------------------------------- reading the log
\* Invocation i issued op, with the given outcome.
HasCall(i, op, ok) == \E k \in 1..Len(calls[i]) : calls[i][k].op = op /\ calls[i][k].ok = ok

\* Invocation i issued op.
Issued(i, op) == \E k \in 1..Len(calls[i]) : calls[i][k].op = op

\* Some knowledge base of the registry is named kb-<cid>.
Registered(cid) == \E k \in 1..Len(registry) : registry[k].name = KbName(cid)

\* The request of invocation i carries a string client_id.
HasId(i) == pc[i] # "idle" /\ req[i].kind = "string"

\* ------------------------------------------------------------- C1
\* C1: whenever create_knowledge_base succeeded in an invocation and its
\* create_data_source then failed, with any kind of failure, the registry
\* holds no knowledge base named kb-<client_id> once the invocation has
\* returned its error.
C1_NoKbAfterDataSourceFailure ==
    \A i \in Invocations :
        ( /\ pc[i] = "done"
          /\ HasCall(i, "create_knowledge_base", TRUE)
          /\ HasCall(i, "create_data_source", FALSE) )
        => ~Registered(client_id[i])

\* ------------------------------------------------------------- C2
\* C2 as stated: whenever a knowledge base named kb-<client_id> is in the
\* registry when the duplicate check runs, the handler leaves the check with
\* the 409 response carrying that record's identifier.
C2_ConflictWheneverRegistered ==
    [][ \A i \in Invocations :
          ( /\ pc[i] = "list"
            /\ pc'[i] # "list"
            /\ Registered(client_id[i]) )
          => ( /\ pc'[i] = "done"
               /\ resp'[i].statusCode = 409
               /\ \E k \in 1..Len(registry) :
                    /\ registry[k].name = KbName(client_id[i])
                    /\ resp'[i].kb_id = registry[k].id ) ]_vars

\* C2 amended: whenever list_knowledge_bases succeeds and its listing holds a
\* knowledge base named kb-<client_id>, the handler returns 409 with the
\* identifier of the first such record, having issued no call but the listing
\* and having changed nothing in the registry, the bucket or the collection.
C2_ConflictWhenListed ==
    [][ \A i \in Invocations :
          ( /\ pc[i] = "list"
            /\ pc'[i] # "list"
            /\ calls'[i][Len(calls'[i])].ok
            /\ Registered(client_id[i]) )
          => ( /\ pc'[i] = "done"
               /\ resp'[i].statusCode = 409
               /\ \E k \in 1..Len(registry) :
                    /\ registry[k].name = KbName(client_id[i])
                    /\ \A j \in 1..(k - 1) : registry[j].name # KbName(client_id[i])
                    /\ resp'[i].kb_id = registry[k].id
               /\ calls'[i] = << Call("list_knowledge_bases", TRUE, "") >>
               /\ UNCHANGED world ) ]_vars

\* An invocation returned 409 for a knowledge base that an earlier invocation
\* created, after the listing alone.
C2_Witness ==
    \E i \in Invocations :
        /\ pc[i] = "done"
        /\ resp[i].statusCode = 409
        /\ Registered(client_id[i])
        /\ Len(calls[i]) = 1

\* ------------------------------------------------------------- C3
\* The request of invocation i is rejected for its input: the body is no JSON,
\* or the lower-cased, trimmed client_id has fewer than 2 characters.
RejectedInput(i) ==
    /\ pc[i] # "idle"
    /\ \/ req[i].kind = "malformed"
       \/ req[i].kind = "string" /\ Len(strip(lower(req[i].client_id))) < 2

\* C3: every request rejected for its input has returned a 400 response and
\* the invocation issued no external call.
C3_RejectedInputNoCalls ==
    \A i \in Invocations :
        RejectedInput(i)
        => ( /\ pc[i] = "done"
             /\ resp[i].statusCode = 400
             /\ calls[i] = <<>> )

\* A three-character client_id that trimming leaves with one character was
\* rejected as too short.
C3_Witness ==
    /\ pc[1] = "done"
    /\ req[1].kind = "string"
    /\ Len(req[1].client_id) = 3
    /\ Len(client_id[1]) = 1
    /\ resp[1] = TooShort
    /\ calls[1] = <<>>

\* ------------------------------------------------------------- C4
\* C4: every client_id of at least 2 characters that, lower-cased and trimmed,
\* holds a character outside [a-z0-9_-] gets the 400 validation error and no
\* provisioning step is started.
C4_OutsideCharsetRejected ==
    \A i \in Invocations :
        ( /\ HasId(i)
          /\ Len(req[i].client_id) >= 2
          /\ \E k \in 1..Len(client_id[i]) : ~InCharset(client_id[i][k]) )
        => ( /\ pc[i] = "done"
             /\ resp[i].statusCode = 400
             /\ calls[i] = <<>> )

\* ------------------------------------------------------------- C5
\* The client_id of invocation i is one the handler accepts.
AcceptedId(i) ==
    /\ HasId(i)
    /\ Len(client_id[i]) >= 2
    /\ \A k \in 1..Len(client_id[i]) : InCharset(client_id[i][k])
    /\ \E k \in 1..Len(client_id[i]) : client_id[i][k] \notin {"-", "_"}

\* C5: a request with a valid client_id handled while a required configuration
\* value is missing fails with a 500-class status and an error naming the
\* missing value.
C5_MissingConfigIs500 ==
    \A i \in Invocations :
        ( AcceptedId(i) /\ env # EnvSet )
        => ( /\ pc[i] = "done"
             /\ resp[i].statusCode >= 500
             /\ resp[i].detail \in EnvSet \ env )

\* ------------------------------------------------------------- C6
\* C6: nothing in the handler serializes two invocations for one client_id:
\* whatever the other invocations are doing, the duplicate check of an
\* invocation can pass while the registry holds no kb-<client_id>, and an
\* invocation that reached knowledge-base creation can issue it.
C6_NoSerialization ==
    \A i \in Invocations :
        /\ (pc[i] = "list" /\ ~Registered(client_id[i]))
             => ENABLED ( /\ ListKnowledgeBases(i)
                          /\ calls'[i] = << Call("list_knowledge_bases", TRUE, "") >>
                          /\ pc'[i] = "put" )
        /\ pc[i] = "create_kb" => ENABLED CreateKnowledgeBase(i)

\* Two concurrent invocations for the same client_id both listed without a
\* match and both created a knowledge base of the same name.
C6_Witness ==
    \E i, j \in Invocations :
        /\ i # j
        /\ client_id[i] = client_id[j]
        /\ pc[i] \in {"create_ds", "cleanup"}
        /\ pc[j] \in {"create_ds", "cleanup"}
        /\ HasCall(i, "list_knowledge_bases", TRUE)
        /\ HasCall(j, "list_knowledge_bases", TRUE)
        /\ HasCall(i, "create_knowledge_base", TRUE)
        /\ HasCall(j, "create_knowledge_base", TRUE)
        /\ Cardinality({k \in 1..Len(registry) :
                          registry[k].name = KbName(client_id[i])}) = 2

\* ------------------------------------------------------------- C7
\* C7: a failed duplicate-check listing is not fatal: the handler returns no
\* error for it and goes on to put_object.
C7_ListFailureNotFatal ==
    \A i \in Invocations :
        calls[i] = << Call("list_knowledge_bases", FALSE, "") >>
        => (pc[i] = "put" /\ resp[i] = NoResponse)

\* ------------------------------------------------------------- C8
\* The place of a call in the workflow; the compensating delete comes last.
Rank(op) ==
    CASE op = "list_knowledge_bases"  -> 1
      [] op = "put_object"            -> 2
      [] op = "indices.exists"        -> 3
      [] op = "indices.create"        -> 4
      [] op = "create_knowledge_base" -> 5
      [] op = "create_data_source"    -> 6
      [] OTHER                        -> 7

\* C8: the calls of one invocation are issued in the fixed order, each at most
\* once (their ranks rise strictly along the log); create_knowledge_base only
\* after put_object succeeded and the index exists or was created;
\* create_data_source only after create_knowledge_base succeeded; a failed
\* put_object, index call or create_knowledge_base is the last call issued.
C8_FixedOrder ==
    \A i \in Invocations :
        LET c == calls[i]
        IN  /\ \A k \in 1..(Len(c) - 1) : Rank(c[k].op) < Rank(c[k + 1].op)
            /\ Issued(i, "create_knowledge_base")
                 => /\ HasCall(i, "put_object", TRUE)
                    /\ client_id[i] \in indices
                    /\ \/ HasCall(i, "indices.create", TRUE)
                       \/ /\ HasCall(i, "indices.exists", TRUE)
                          /\ ~Issued(i, "indices.create")
            /\ Issued(i, "create_data_source") => HasCall(i, "create_knowledge_base", TRUE)
            /\ \A k \in 1..Len(c) :
                 ( /\ ~c[k].ok
                   /\ c[k].op \in {"put_object", "indices.exists", "indices.create",
                                   "create_knowledge_base"} )
                 => k = Len(c)

\* An invocation issued all six forward calls and returned 200.
C8_Witness ==
    \E i \in Invocations :
        /\ pc[i] = "done"
        /\ resp[i].statusCode = 200
        /\ Len(calls[i]) = 6

\* ------------------------------------------------------------- C9
\* C9 as stated: whenever the index <client_id>_index exists when the index
\* step runs, the step changes nothing in the collection, issues no
\* indices.create and leaves the handler at create_knowledge_base.
C9_ExistingIndexContinues ==
    [][ \A i \in Invocations :
          ( /\ pc[i] = "exists"
            /\ pc'[i] # "exists"
            /\ client_id[i] \in indices )
          => ( /\ pc'[i] = "create_kb"
               /\ indices' = indices ) ]_vars

\* C9 amended: whenever the indices.exists call succeeds and the index
\* <client_id>_index exists, the step changes nothing in the collection and
\* leaves the handler at create_knowledge_base, indices.create not issued.
C9_ReportedIndexContinues ==
    [][ \A i \in Invocations :
          ( /\ pc[i] = "exists"
            /\ pc'[i] # "exists"
            /\ calls'[i][Len(calls'[i])].ok
            /\ client_id[i] \in indices )
          => ( /\ pc'[i] = "create_kb"
               /\ indices' = indices
               /\ \A k \in 1..Len(calls'[i]) : calls'[i][k].op # "indices.create" ) ]_vars

\* An invocation found its index in place, issued no indices.create and went
\* on to create its knowledge base.
C9_Witness ==
    \E i \in Invocations :
        /\ HasCall(i, "indices.exists", TRUE)
        /\ ~Issued(i, "indices.create")
        /\ HasCall(i, "create_knowledge_base", TRUE)

\* ------------------------------------------------------------- C10
\* C10: once create_data_source failed and the compensating delete was
\* issued, the response is the data-source error with the message of the
\* create_data_source failure, the same whether the delete failed or not.
C10_CleanupFailureKeepsError ==
    \A i \in Invocations :
        (pc[i] = "done" /\ Issued(i, "delete_knowledge_base"))
        => \E k \in 1..Len(calls[i]) :
             /\ calls[i][k].op = "create_data_source"
             /\ ~calls[i][k].ok
             /\ resp[i] = Response(500, "Failed to create Data Source", calls[i][k].msg)

\* An invocation returned after its create_data_source and its compensating
\* delete both failed, and the knowledge base it created is still registered.
C10_Witness ==
    \E i \in Invocations :
        /\ pc[i] = "done"
        /\ HasCall(i, "create_data_source", FALSE)
        /\ HasCall(i, "delete_knowledge_base", FALSE)
        /\ \E k \in 1..Len(registry) : registry[k].id = kb_id[i]

\* ------------------------------------------------------------- C11
\* C11: every invocation ends with exactly one response: a started invocation
\* can always take its next step until it has returned, and takes none after;
\* it holds a response exactly when it has returned; the status is 200, 400,
\* 409 or 500; it is 200, with success true and no delete issued, exactly when
\* create_knowledge_base and create_data_source both succeeded; every other
\* response has success false and an error field.
C11_OneResponse ==
    \A i \in Invocations :
        /\ (pc[i] = "done") <=> (resp[i] # NoResponse)
        /\ pc[i] \notin {"idle", "done"} => ENABLED Step(i)
        /\ pc[i] = "done" =>
             /\ ~ENABLED Step(i)
             /\ resp[i].statusCode \in {200, 400, 409, 500}
             /\ (resp[i].statusCode = 200)
                  <=> ( /\ HasCall(i, "create_knowledge_base", TRUE)
                        /\ HasCall(i, "create_data_source", TRUE) )
             /\ resp[i].statusCode = 200
                  => ( /\ resp[i].success
                       /\ resp[i].kb_id = kb_id[i]
                       /\ ~Issued(i, "delete_knowledge_base") )
             /\ resp[i].statusCode # 200
                  => (~resp[i].success /\ resp[i].error # "")

\* One invocation returned 200 after both creations, and another, started
\* after it, returned 409 with an error.
C11_Witness ==
    \E i, j \in Invocations :
        /\ pc[i] = "done" /\ pc[j] = "done"
        /\ resp[i].statusCode = 200
        /\ HasCall(i, "create_data_source", TRUE)
        /\ resp[j].statusCode = 409
        /\ resp[j].kb_id = resp[i].kb_id

\* ------------------------------------------------------------- C12
\* What the log of invocation i says about its compensating delete and about
\* the artifacts of its storage and index steps.
CleanupDiscipline(i) ==
    /\ Issued(i, "delete_knowledge_base")
         => /\ HasCall(i, "create_data_source", FALSE)
            /\ HasCall(i, "create_knowledge_base", TRUE)
            /\ calls[i][Len(calls[i])].op = "delete_knowledge_base"
            /\ \A k \in 1..(Len(calls[i]) - 1) : calls[i][k].op # "delete_knowledge_base"
    /\ (kb_id[i] # 0) <=> HasCall(i, "create_knowledge_base", TRUE)
    /\ HasCall(i, "put_object", TRUE) => client_id[i] \in bucket
    /\ HasCall(i, "indices.create", TRUE) => client_id[i] \in indices

\* What one step may change in the bucket, the collection and the registry:
\* markers and indices are only added; a knowledge base leaves the registry
\* only by the successful compensating delete of the invocation that created
\* it; a knowledge base that stays keeps its name, and gains a data source
\* only from the invocation that created it.
FrameStep ==
    /\ bucket \subseteq bucket'
    /\ indices \subseteq indices'
    /\ \A k \in 1..Len(registry) :
         IF \E l \in 1..Len(registry') : registry'[l].id = registry[k].id
           THEN \E l \in 1..Len(registry') :
                  /\ registry'[l].id = registry[k].id
                  /\ registry'[l].name = registry[k].name
                  /\ registry[k].ds => registry'[l].ds
                  /\ registry'[l].ds # registry[k].ds
                       => \E i \in Invocations :
                            /\ pc[i] = "create_ds"
                            /\ kb_id[i] = registry[k].id
           ELSE \E i \in Invocations :
                  /\ pc[i] = "cleanup"
                  /\ pc'[i] = "done"
                  /\ calls'[i][Len(calls'[i])] = Call("delete_knowledge_base", TRUE, "")
                  /\ kb_id[i] = registry[k].id
                  /\ registry[k].name = KbName(client_id[i])
                  /\ Len(registry') = Len(registry) - 1

\* C12: the handler removes nothing but by its compensating delete, issued at
\* most once, only after create_data_source failed in the same invocation and
\* only for the knowledge base that invocation created; markers and indices
\* are never removed, and every other knowledge base stays as it was.
C12_OnlyCompensatingDelete ==
    /\ [](\A i \in Invocations : CleanupDiscipline(i))
    /\ [][FrameStep]_vars

\* An invocation deleted the knowledge base it had created while another
\* knowledge base of the same name, the other tenant's knowledge base, the
\* marker and the index all stayed.
C12_Witness ==
    \E i \in Invocations :
        /\ pc[i] = "done"
        /\ HasCall(i, "delete_knowledge_base", TRUE)
        /\ \A k \in 1..Len(registry) : registry[k].id # kb_id[i]
        /\ \E k \in 1..Len(registry) : registry[k].name = KbName(client_id[i])
        /\ \E k \in 1..Len(registry) : registry[k].name = KbName(OtherTenant)
        /\ client_id[i] \in bucket
        /\ client_id[i] \in indices

\* ------------------------------------------------------------- C13
\* Invocation i returned after its create_data_source and its compensating
\* delete both failed.
OrphanLeftBy(i) ==
    /\ pc[i] = "done"
    /\ HasCall(i, "create_data_source", FALSE)
    /\ HasCall(i, "delete_knowledge_base", FALSE)

\* Record k of the registry has no data source and the invocation that
\* created it has returned.
OrphanRecord(k) ==
    /\ ~registry[k].ds
    /\ \A i \in Invocations : kb_id[i] = registry[k].id => pc[i] = "done"

\* Some knowledge base named kb-<cid> has a data source.
Provisioned(cid) ==
    \E k \in 1..Len(registry) : registry[k].name = KbName(cid) /\ registry[k].ds

====
